---- MODULE Spec2Model ----
(***************************************************************************)
(* Transcription pipeline of the repository.                               *)
(*                                                                         *)
(* Two application scripts live side by side:                              *)
(*   src/streamlit_compare_cloud_app.py   (app = "cloud")                  *)
(*   src/streamlit_compare＿cloud_app.py  (app = "variant")                *)
(* Both define transcribe_google_stt, transcribe_gemini,                   *)
(* generate_merged_content and an upload loop.  The variable `app` says    *)
(* which script is running.                                                *)
(*                                                                         *)
(* Text is a sequence of one-character strings, so that startswith,        *)
(* strip, join, slicing and substring tests are computed, not assumed.     *)
(* A non-ASCII character is written as its code point, "u7121" for U+7121. *)
(* Audio lengths are in milliseconds, sizes in bytes.                      *)
(***************************************************************************)
EXTENDS Integers, Sequences, FiniteSets, TLC

VARIABLES
    app,                \* which script runs
    \* ---- one call of transcribe_google_stt ----
    pc,                 \* position inside the call
    path,               \* how the call went: "none" | "short" | "long" | "error"
    needs_conversion,   \* result of check_audio_quality: "None" | "False" | "True"
    working_path,       \* "original" | "temp"
    temp_file,          \* the NamedTemporaryFile: "none" | "exists" | "deleted"
    audio_len,          \* len(audio_segment), ms
    chunk_duration_ms,  \* int(max_chunk_duration * 1000)
    chunks,             \* list of slices [start, dur]
    transcripts,        \* list of per-chunk texts
    outcomes,           \* what export / the recognizer did for each unit (history)
    calls,              \* client.recognize calls made: chunk numbers, 0 = whole file
    result,             \* returned text
    \* ---- the upload loop ----
    input_file,         \* the uploaded file at temp_path: "exists" | "deleted"
    mode,               \* "stt" | "gemini" | "dual"
    uploaded_files,     \* list of [name, audio_len]
    file_i,             \* loop index, 1-based
    bpc,                \* position inside the loop body
    duration_sec,       \* duration of the current file
    stt_records,        \* list of [filename, datetime, duration_sec, transcript]
    gemini_records,
    log,                \* calls of the transcribe functions (history)
    \* ---- the result tabs ----
    records_in,         \* the list as it was handed to generate_merged_content (history)
    merged_txt,         \* lines of the merged document
    comparison_report   \* what generate_comparison_report returned

sttVars == <<pc, path, needs_conversion, working_path, temp_file, audio_len,
             chunks, transcripts, outcomes, calls, result>>

batchVars == <<mode, uploaded_files, file_i, bpc, duration_sec, stt_records,
               gemini_records, log>>

renderVars == <<records_in, merged_txt, comparison_report>>

vars == <<app, chunk_duration_ms, input_file, sttVars, batchVars, renderVars>>

(***************************************************************************)
(* Bounds                                                                  *)
(***************************************************************************)
MaxAudioLen == 5
MaxWindow == 3

(***************************************************************************)
(* Text helpers (Python str semantics)                                     *)
(***************************************************************************)
Min(a, b) == IF a <= b THEN a ELSE b

DigitChars == <<"0", "1", "2", "3", "4", "5", "6", "7", "8", "9">>

RECURSIVE Str(_)
\* str(n) for n >= 0, as used by the f-strings
Str(n) == IF n < 10 THEN <<DigitChars[n + 1]>>
          ELSE Str(n \div 10) \o <<DigitChars[(n % 10) + 1]>>

UpperAlpha == <<"A","B","C","D","E","F","G","H","I","J","K","L","M",
                "N","O","P","Q","R","S","T","U","V","W","X","Y","Z">>
LowerAlpha == <<"a","b","c","d","e","f","g","h","i","j","k","l","m",
                "n","o","p","q","r","s","t","u","v","w","x","y","z">>

LowerChar(c) == IF \E n \in 1..26 : UpperAlpha[n] = c
                THEN LowerAlpha[CHOOSE n \in 1..26 : UpperAlpha[n] = c]
                ELSE c

\* s.lower()
Lower(s) == [n \in 1..Len(s) |-> LowerChar(s[n])]

UpperChar(c) == IF \E n \in 1..26 : LowerAlpha[n] = c
                THEN UpperAlpha[CHOOSE n \in 1..26 : LowerAlpha[n] = c]
                ELSE c

\* s.upper()
Upper(s) == [n \in 1..Len(s) |-> UpperChar(s[n])]

\* sub in s
Contains(s, sub) ==
    \E n \in 0..(Len(s) - Len(sub)) :
        \A m \in 1..Len(sub) : s[n + m] = sub[m]

\* s[:n]
Take(s, n) == SubSeq(s, 1, Min(Len(s), n))

\* s.startswith(p)
StartsWith(s, p) == Len(s) >= Len(p) /\ SubSeq(s, 1, Len(p)) = p

IsSpace(c) == c \in {" ", "\n", "\t"}

RECURSIVE LStrip(_)
LStrip(s) == IF s # <<>> /\ IsSpace(Head(s)) THEN LStrip(Tail(s)) ELSE s

RECURSIVE RStrip(_)
RStrip(s) == IF s # <<>> /\ IsSpace(s[Len(s)])
             THEN RStrip(SubSeq(s, 1, Len(s) - 1)) ELSE s

\* s.strip()
Strip(s) == RStrip(LStrip(s))

RECURSIVE Join(_)
\* "".join(list)
Join(list) == IF list = <<>> THEN <<>> ELSE Head(list) \o Join(Tail(list))

(***************************************************************************)
(* Literals of the source                                                  *)
(***************************************************************************)
SENTINEL == <<"[","u7121","u6CD5","u8FA8","u8B58","u5167","u5BB9","]">>

STT_ERR == <<"[","S","T","T"," ","u932F","u8AA4",":"," ">>

s_quota == <<"q","u","o","t","a">>
s_invalid == <<"i","n","v","a","l","i","d">>
s_duration_limit == <<"d","u","r","a","t","i","o","n"," ","l","i","m","i","t">>
s_too_long == <<"t","o","o"," ","l","o","n","g">>

max_size_mb == 8
MB == 1024 * 1024
SttErrMax == 100
VariantErrMax == 100

\* f"[第{idx+1}段過大，跳過]"
TooLargeMarker(n) == <<"[","u7B2C">> \o Str(n) \o <<"u6BB5","u904E","u5927","uFF0C","u8DF3","u904E","]">>
\* f"[第{idx+1}段: 配額不足]"
QuotaMarker(n) == <<"[","u7B2C">> \o Str(n) \o <<"u6BB5",":"," ","u914D","u984D","u4E0D","u8DB3","]">>
\* the marker with the 0-based idx
FailMarker_zero_based(n) == <<"[","u7B2C">> \o Str(n - 1) \o <<"u6BB5","u8FA8","u8B58","u5931","u6557","]">>

\* f"[第{idx+1}段辨識失敗]"
FailMarker(n) == <<"[","u7B2C">> \o Str(n) \o <<"u6BB5","u8FA8","u8B58","u5931","u6557","]">>

(***************************************************************************)
(* Environment: what the file, ffmpeg and the recognizer may answer        *)
(***************************************************************************)
e_quota == <<"Q","u","o","t","a">>
e_boom == <<"b","o","o","m">>
e_invalid == <<"I","n","v","a","l","i","d">>
e_too_long == <<"t","o","o"," ","l","o","n","g">>
e_duration == <<"D","u","r","a","t","i","o","n"," ","l","i","m","i","t">>

\* exceptions of client creation / AudioSegment.from_file / recognize on a whole file
FileErrors == {e_quota, e_boom, e_invalid, e_too_long, e_duration}
\* exceptions of one chunk's recognize call
ChunkErrors == {e_quota, e_boom}
\* exceptions of one chunk's export
ExportErrors == {e_boom}

Letters == <<"a","b","c","d","e","f","g","h","i","j">>
\* recognized text the service may return for unit n: nothing, blank, or a word
Texts(n) == { <<>>, <<" ">>, <<Letters[((n - 1) % 10) + 1]>> }

\* encoded sizes in bytes around the ceiling
Sizes == {max_size_mb * MB, max_size_mb * MB + 1}

(***************************************************************************)
(* Segmentation                                                            *)
(***************************************************************************)
\* a slice that is not clamped to the end of the audio
Slice_unclamped(i, j, len) == [start |-> i, dur |-> j - i]

\* pydub audio_segment[i:j]: both ends are clamped to the length
Slice(i, j, len) == [start |-> Min(i, len), dur |-> Min(j, len) - Min(i, len)]

RECURSIVE SegmentLoop(_, _, _, _)
\* for i in range(i, len, step): chunks.append(audio_segment[i:i + step])
SegmentLoop(i, len, step, acc) ==
    IF i >= len THEN acc
    ELSE SegmentLoop(i + step, len, step, Append(acc, Slice(i, i + step, len)))

SegmentAudio(len, step) == SegmentLoop(0, len, step, <<>>)

(***************************************************************************)
(* convert_audio_to_standard_format                                        *)
(***************************************************************************)
ConvertErrMax == 200
e_stderr == <<"e","r","r">>

\* what ffmpeg may do: finish, exit non-zero, or run into the 120 s timeout
ConvertTools == {"ok", "failed", "timeout"}

\* returns (success, message); a missing input file makes ffmpeg exit non-zero
convert_audio_to_standard_format(target_format, tool, input) ==
    IF target_format \notin {<<"w","a","v">>, <<"m","4","a">>}
    THEN [success |-> FALSE, message |-> <<"u4E0D","u652F","u63F4","u7684","u683C","u5F0F","uFF1A">> \o target_format]
    ELSE IF tool = "timeout"
    THEN [success |-> FALSE, message |-> <<"u8F49","u63DB","u8D85","u6642">>]
    ELSE IF tool = "ok" /\ input = "exists"
    THEN [success |-> TRUE,
          message |-> <<"u5DF2","u8F49","u63DB","u70BA","u6A19","u6E96"," ">> \o Upper(target_format) \o <<" ","u683C","u5F0F">>]
    ELSE [success |-> FALSE, message |-> <<"u8F49","u63DB","u5931","u6557","uFF1A">> \o Take(e_stderr, ConvertErrMax)]

(***************************************************************************)
(* transcribe_google_stt, src/streamlit_compare_cloud_app.py               *)
(***************************************************************************)
\* outer except: the file-level error text
OuterHandler(msg) ==
    IF Contains(Lower(msg), s_quota)
    THEN STT_ERR \o <<"A","P","I"," ","u914D","u984D","u4E0D","u8DB3","uFF0C","u8ACB","u7A0D","u5F8C","u518D","u8A66","]">>
    ELSE IF Contains(Lower(msg), s_invalid)
    THEN STT_ERR \o <<"u97F3","u8A0A","u683C","u5F0F","u7121","u6548","]">>
    ELSE IF Contains(Lower(msg), s_duration_limit) \/ Contains(Lower(msg), s_too_long)
    THEN STT_ERR \o <<"u97F3","u8A0A","u904E","u9577","uFF0C","u8ACB","u8ABF","u6574","u5207","u5206","u8A2D","u5B9A","]">>
    ELSE STT_ERR \o Take(msg, SttErrMax) \o <<"]">>

\* A step of the loop body either continues with a text appended or lets
\* an exception escape to the outer handler.
Continue(text, called) == [raised |-> FALSE, text |-> text, called |-> called, msg |-> <<>>]
Raise(msg, called) == [raised |-> TRUE, text |-> <<>>, called |-> called, msg |-> msg]

\* a chunk handler that lets the exception escape
ChunkExcept_reraise(n, msg, called) == Raise(msg, called)

\* except Exception as chunk_error (inside the loop)
ChunkExcept(n, msg, called) ==
    IF Contains(Lower(msg), s_quota)
    THEN Continue(QuotaMarker(n), called)
    ELSE Continue(FailMarker(n), called)

\* an oversize branch that falls through to the recognize call
OversizeSkip_fallthrough(n) == Continue(<<Letters[((n - 1) % 10) + 1]>>, TRUE)

\* if chunk_size_mb > max_size_mb: append marker; continue
OversizeSkip(n) == Continue(TooLargeMarker(n), FALSE)

\* chunk_transcript appended, "" when the response has no results
Recognized(text) == Continue(IF text # <<>> THEN text ELSE <<>>, TRUE)

\* body of "for idx, chunk in enumerate(chunks)" for chunk number n = idx + 1
ProcessChunk(n, o) ==
    CASE o.kind = "export_error" -> ChunkExcept(n, o.msg, FALSE)
      [] o.kind = "exported" /\ o.size > max_size_mb * MB -> OversizeSkip(n)
      [] o.kind = "exported" /\ o.size <= max_size_mb * MB /\ o.resp = "text" -> Recognized(o.text)
      [] o.kind = "exported" /\ o.size <= max_size_mb * MB /\ o.resp = "exception" ->
            ChunkExcept(n, o.msg, TRUE)

\* full_transcript = "".join(transcripts); sentinel when blank
Aggregate(ts) ==
    LET full_transcript == Join(ts)
    IN  IF full_transcript = <<>> \/ Strip(full_transcript) = <<>>
        THEN SENTINEL ELSE full_transcript

\* short path: result = transcript if transcript else sentinel
ShortResult(text) == IF text # <<>> THEN text ELSE SENTINEL

\* a cleanup without the "working_path != audio_path" test
CleanupTarget_unguarded(nc, wp) == IF nc = "True" THEN wp ELSE "nothing"

\* "if needs_conversion and working_path != audio_path: os.unlink(working_path)"
CleanupTarget(nc, wp) == IF nc = "True" /\ wp # "original" THEN wp ELSE "nothing"

\* the files after the unlink
Unlink(target, file, name) == IF target = name THEN "deleted" ELSE file

\* a second recognize call for the same chunk
Dispatch_retry(made, n, called) == IF called THEN made \o <<n, n>> ELSE made

\* response = client.recognize(config=config, audio=audio): one call for
\* chunk n when the loop body got that far
Dispatch(made, n, called) == IF called THEN Append(made, n) ELSE made

\* what export and the recognizer can do with chunk n
ChunkOutcomes(n) ==
    [kind : {"export_error"}, msg : ExportErrors]
    \cup [kind : {"exported"}, size : {max_size_mb * MB + 1}]
    \cup [kind : {"exported"}, size : {max_size_mb * MB}, resp : {"text"}, text : Texts(n)]
    \cup [kind : {"exported"}, size : {max_size_mb * MB}, resp : {"exception"}, msg : ChunkErrors]

\* steps 1-2: quality check, conversion to WAV with fallback to the original
stt_convert ==
    /\ app = "cloud" /\ pc = "start"
    /\ \E nc \in {"None", "False", "True"}, tool \in ConvertTools :
        /\ needs_conversion' = nc
        /\ IF nc = "True"
           THEN /\ temp_file' = "exists"
                /\ working_path' =
                     IF convert_audio_to_standard_format(<<"w","a","v">>, tool, input_file).success
                     THEN "temp" ELSE "original"
           ELSE /\ temp_file' = temp_file
                /\ working_path' = "original"
    /\ pc' = "converted"
    /\ UNCHANGED <<app, batchVars, renderVars, input_file, path, audio_len, chunk_duration_ms, chunks, transcripts,
                   outcomes, calls, result>>

\* steps 3-4: client, AudioSegment.from_file, size; choose the branch
stt_load ==
    /\ app = "cloud" /\ pc = "converted"
    /\ \/ \E msg \in FileErrors :
            /\ result' = OuterHandler(msg)
            /\ path' = "error"
            /\ pc' = "done"
       \/ \E file_size \in Sizes :
            /\ pc' = IF audio_len <= chunk_duration_ms /\ file_size <= max_size_mb * MB
                     THEN "short" ELSE "long"
            /\ UNCHANGED <<path, result>>
    /\ UNCHANGED <<app, batchVars, renderVars, input_file, needs_conversion, working_path, temp_file, audio_len,
                   chunk_duration_ms, chunks, transcripts, outcomes, calls>>

\* short audio: one recognize call on the whole file
stt_short ==
    /\ app = "cloud" /\ pc = "short"
    /\ calls' = Append(calls, 0)
    /\ \/ \E text \in Texts(1) :
            /\ outcomes' = Append(outcomes, [kind |-> "exported", size |-> max_size_mb * MB,
                                             resp |-> "text", text |-> text])
            /\ result' = ShortResult(text)
            /\ temp_file' = Unlink(CleanupTarget(needs_conversion, working_path), temp_file, "temp")
            /\ input_file' = Unlink(CleanupTarget(needs_conversion, working_path), input_file, "original")
            /\ path' = "short"
       \/ \E msg \in FileErrors :
            /\ outcomes' = Append(outcomes, [kind |-> "exported", size |-> max_size_mb * MB,
                                             resp |-> "exception", msg |-> msg])
            /\ result' = OuterHandler(msg)
            /\ path' = "error"
            /\ UNCHANGED <<temp_file, input_file>>
    /\ pc' = "done"
    /\ UNCHANGED <<app, batchVars, renderVars,  needs_conversion, working_path, audio_len, chunk_duration_ms,
                   chunks, transcripts>>

\* long audio: build the chunk list
stt_segment ==
    /\ app = "cloud" /\ pc = "long"
    /\ chunks' = SegmentAudio(audio_len, chunk_duration_ms)
    /\ transcripts' = <<>>
    /\ path' = "long"
    /\ pc' = "chunking"
    /\ UNCHANGED <<app, batchVars, renderVars, input_file, needs_conversion, working_path, temp_file, audio_len,
                   chunk_duration_ms, outcomes, calls, result>>

\* one iteration of the recognition loop
stt_chunk ==
    /\ app = "cloud" /\ pc = "chunking"
    /\ Len(transcripts) < Len(chunks)
    /\ LET n == Len(transcripts) + 1
       IN  \E o \in ChunkOutcomes(n) :
            LET r == ProcessChunk(n, o)
            IN  /\ outcomes' = Append(outcomes, o)
                /\ calls' = Dispatch(calls, n, r.called)
                /\ IF r.raised
                   THEN /\ result' = OuterHandler(r.msg)
                        /\ path' = "error"
                        /\ pc' = "done"
                        /\ UNCHANGED transcripts
                   ELSE /\ transcripts' = Append(transcripts, r.text)
                        /\ UNCHANGED <<result, path, pc>>
    /\ UNCHANGED <<app, batchVars, renderVars, input_file, needs_conversion, working_path, temp_file, audio_len,
                   chunk_duration_ms, chunks>>

\* join, sentinel, cleanup, return
stt_return ==
    /\ app = "cloud" /\ pc = "chunking"
    /\ Len(transcripts) = Len(chunks)
    /\ result' = Aggregate(transcripts)
    /\ temp_file' = Unlink(CleanupTarget(needs_conversion, working_path), temp_file, "temp")
    /\ input_file' = Unlink(CleanupTarget(needs_conversion, working_path), input_file, "original")
    /\ pc' = "done"
    /\ UNCHANGED <<app, batchVars, renderVars,  path, needs_conversion, working_path, audio_len,
                   chunk_duration_ms, chunks, transcripts, outcomes, calls>>

(***************************************************************************)
(* transcribe_google_stt, src/streamlit_compare＿cloud_app.py              *)
(***************************************************************************)
\* except Exception as e: return f"[STT 錯誤: {str(e)[:100]}]"
VariantOuterHandler(msg) == STT_ERR \o Take(msg, VariantErrMax) \o <<"]">>

\* inner except: transcripts.append("")
VariantChunkExcept(n, msg) == Continue(<<>>, TRUE)

\* loop body: export is outside the inner try, recognize inside it
VariantProcessChunk(n, o) ==
    CASE o.kind = "export_error" -> Raise(o.msg, FALSE)
      [] o.kind = "exported" /\ o.resp = "text" -> Continue(o.text, TRUE)
      [] o.kind = "exported" /\ o.resp = "exception" -> VariantChunkExcept(n, o.msg)

\* return full_transcript if full_transcript.strip() else sentinel
VariantAggregate(ts) ==
    LET full_transcript == Join(ts)
    IN  IF Strip(full_transcript) # <<>> THEN full_transcript ELSE SENTINEL

VariantChunkOutcomes(n) ==
    [kind : {"export_error"}, msg : ExportErrors]
    \cup [kind : {"exported"}, size : {max_size_mb * MB}, resp : {"text"}, text : Texts(n)]
    \cup [kind : {"exported"}, size : {max_size_mb * MB}, resp : {"exception"}, msg : ChunkErrors]

\* client and AudioSegment.from_file
variant_stt_load ==
    /\ app = "variant" /\ pc = "start"
    /\ \/ \E msg \in FileErrors :
            /\ result' = VariantOuterHandler(msg)
            /\ path' = "error"
            /\ pc' = "done"
            /\ UNCHANGED transcripts
       \/ /\ transcripts' = <<>>
          /\ path' = "long"
          /\ pc' = "chunking"
          /\ UNCHANGED result
    /\ UNCHANGED <<app, batchVars, renderVars, input_file, needs_conversion, working_path, temp_file, audio_len,
                   chunk_duration_ms, chunks, outcomes, calls>>

\* one iteration of "for i in range(0, len(audio_segment), chunk_duration_ms)"
variant_stt_chunk ==
    /\ app = "variant" /\ pc = "chunking"
    /\ Len(chunks) * chunk_duration_ms < audio_len
    /\ LET i == Len(chunks) * chunk_duration_ms
           n == Len(chunks) + 1
       IN  /\ chunks' = Append(chunks, Slice(i, i + chunk_duration_ms, audio_len))
           /\ \E o \in VariantChunkOutcomes(n) :
                LET r == VariantProcessChunk(n, o)
                IN  /\ outcomes' = Append(outcomes, o)
                    /\ calls' = IF r.called THEN Append(calls, n) ELSE calls
                    /\ IF r.raised
                       THEN /\ result' = VariantOuterHandler(r.msg)
                            /\ path' = "error"
                            /\ pc' = "done"
                            /\ UNCHANGED transcripts
                       ELSE /\ transcripts' = Append(transcripts, r.text)
                            /\ UNCHANGED <<result, path, pc>>
    /\ UNCHANGED <<app, batchVars, renderVars, input_file, needs_conversion, working_path, temp_file, audio_len,
                   chunk_duration_ms>>

variant_stt_return ==
    /\ app = "variant" /\ pc = "chunking"
    /\ Len(chunks) * chunk_duration_ms >= audio_len
    /\ result' = VariantAggregate(transcripts)
    /\ pc' = "done"
    /\ UNCHANGED <<app, batchVars, renderVars, input_file, path, needs_conversion, working_path, temp_file, audio_len,
                   chunk_duration_ms, chunks, transcripts, outcomes, calls>>

(***************************************************************************)
(* One call of transcribe_google_stt on one file                           *)
(***************************************************************************)
InitStt ==
    /\ app \in {"cloud", "variant"}
    /\ pc = "start"
    /\ path = "none"
    /\ needs_conversion = "None"
    /\ working_path = "original"
    /\ temp_file = "none"
    /\ audio_len \in 0..MaxAudioLen
    /\ chunk_duration_ms \in 1..MaxWindow
    /\ chunks = <<>>
    /\ transcripts = <<>>
    /\ outcomes = <<>>
    /\ calls = <<>>
    /\ result = <<>>
    /\ input_file = "exists"
    /\ mode = "stt"
    /\ uploaded_files = <<>>
    /\ file_i = 1
    /\ bpc = "idle"
    /\ duration_sec = 0
    /\ stt_records = <<>>
    /\ gemini_records = <<>>
    /\ log = <<>>
    /\ records_in = <<>>
    /\ merged_txt = <<>>
    /\ comparison_report = [kind |-> "none"]

NextStt ==
    \/ stt_convert
    \/ stt_load
    \/ stt_short
    \/ stt_segment
    \/ stt_chunk
    \/ stt_return
    \/ variant_stt_load
    \/ variant_stt_chunk
    \/ variant_stt_return

SpecStt == InitStt /\ [][NextStt]_vars

(***************************************************************************)
(* Properties of transcribe_google_stt                                     *)
(***************************************************************************)
CeilDiv(a, b) == (a + b - 1) \div b

RECURSIVE SumDur(_)
SumDur(cs) == IF cs = <<>> THEN 0 ELSE Head(cs).dur + SumDur(Tail(cs))

Range(s) == {s[n] : n \in 1..Len(s)}

\* the segmentation loop has run to its end
ChunkListBuilt ==
    \/ app = "cloud" /\ (pc = "chunking" \/ (pc = "done" /\ path = "long"))
    \/ app = "variant" /\ pc = "done" /\ path = "long"

\* C1: the chunk list has ceil(D/W) chunks, chunk k starts at k*W, the
\* durations sum to D, consecutive chunks touch without gap or overlap, and
\* only the last chunk may be shorter than W.
C1_ChunkList ==
    ChunkListBuilt =>
        /\ Len(chunks) = CeilDiv(audio_len, chunk_duration_ms)
        /\ SumDur(chunks) = audio_len
        /\ \A n \in 1..Len(chunks) :
            /\ chunks[n].start = (n - 1) * chunk_duration_ms
            /\ chunks[n].dur >= 1 /\ chunks[n].dur <= chunk_duration_ms
            /\ n < Len(chunks) =>
                /\ chunks[n].dur = chunk_duration_ms
                /\ chunks[n].start < chunks[n + 1].start
                /\ chunks[n].start + chunks[n].dur = chunks[n + 1].start

\* three chunks, the last one shorter than the window
C1_Witness ==
    /\ ChunkListBuilt
    /\ Len(chunks) = 3
    /\ chunks[3].dur < chunk_duration_ms

\* an outcome of a unit that did not produce recognized text
Failed(o) ==
    \/ o.kind = "export_error"
    \/ o.kind = "exported" /\ o.size > max_size_mb * MB
    \/ o.kind = "exported" /\ o.size <= max_size_mb * MB /\ o.resp = "exception"

BackendFailed(o) ==
    o.kind = "exported" /\ o.size <= max_size_mb * MB /\ o.resp = "exception"

TooLarge(o) == o.kind = "exported" /\ o.size > max_size_mb * MB

GotText(o) == o.kind = "exported" /\ o.size <= max_size_mb * MB /\ o.resp = "text"

\* what the chunk loop and the aggregation make of a list of outcomes
RECURSIVE ChunkedTexts(_, _)
ChunkedTexts(os, n) ==
    IF os = <<>> THEN <<>>
    ELSE <<ProcessChunk(n, Head(os)).text>> \o ChunkedTexts(Tail(os), n + 1)

ChunkedPathResult(os) == Aggregate(ChunkedTexts(os, 1))

\* the call took the short branch and has returned
ShortDone == app = "cloud" /\ pc = "done" /\ calls # <<>> /\ calls[1] = 0

\* C2: a short file (duration <= window, size <= ceiling) gets the transcript
\* the chunk loop would produce for one chunk with the same backend outcome.
C2_ShortAsChunked ==
    ShortDone => result = ChunkedPathResult(outcomes)

IsBracketed(t) == Len(t) >= 2 /\ t[1] = "[" /\ t[Len(t)] = "]"

w_quota == <<"u914D","u984D","u4E0D","u8DB3">>
w_too_large == <<"u904E","u5927">>

\* t is a bracketed marker naming position n and the kind of the failure
MarksFailure(t, n, msg) ==
    /\ IsBracketed(t)
    /\ Contains(t, Str(n))
    /\ Contains(Lower(msg), s_quota) <=> Contains(t, w_quota)

\* C3: every chunk whose backend call failed contributes, at its position, a
\* bracketed marker with its 1-based number and failure kind, and the
\* returned text is the texts and markers in chunk order.
C3_FailedChunkMarked ==
    path = "long" =>
        /\ \A n \in 1..Len(transcripts) :
            BackendFailed(outcomes[n]) =>
                MarksFailure(transcripts[n], n, outcomes[n].msg)
        /\ (/\ pc = "done"
            /\ \E n \in 1..Len(outcomes) : BackendFailed(outcomes[n])
            /\ \E n \in 1..Len(outcomes) : GotText(outcomes[n]) /\ Strip(outcomes[n].text) # <<>>)
                => result = Join(transcripts)

\* C4: when every chunk of a file failed, the returned text is the sentinel.
C4_AllFailedSentinel ==
    (/\ pc = "done" /\ path = "long"
     /\ outcomes # <<>>
     /\ \A n \in 1..Len(outcomes) : Failed(outcomes[n]))
        => result = SENTINEL

\* C5: in the chunk loop a failing chunk does not end the loop, does not
\* keep another chunk from being dispatched, does not change the text of a
\* recognized chunk, and the call does not return a file-level error.
C5_FailureIsolation ==
    (app = "cloud" /\ chunks # <<>>) =>
        /\ path = "long"
        /\ pc = "done" => (Len(transcripts) = Len(chunks) /\ ~StartsWith(result, STT_ERR))
        /\ \A n \in 1..Len(transcripts) :
            /\ GotText(outcomes[n]) \/ BackendFailed(outcomes[n]) => n \in Range(calls)
            /\ GotText(outcomes[n]) => transcripts[n] = outcomes[n].text

\* a chunk failed and a later chunk was still dispatched and recognized
C5_Witness ==
    /\ app = "cloud" /\ pc = "done" /\ Len(chunks) = 3
    /\ Failed(outcomes[1]) /\ BackendFailed(outcomes[2])
    /\ GotText(outcomes[3]) /\ outcomes[3].text = <<"c">>
    /\ 3 \in Range(calls)
    /\ result = transcripts[1] \o transcripts[2] \o <<"c">>

\* C6: a chunk above the size ceiling gets a too-large marker, is not sent
\* to the recognizer, the chunk list is left as segmented, and the loop
\* goes on to the next chunk.
C6_OversizeMarked ==
    (app = "cloud" /\ path = "long") =>
        /\ \A n \in 1..Len(transcripts) :
            TooLarge(outcomes[n]) =>
                /\ n \notin Range(calls)
                /\ IsBracketed(transcripts[n])
                /\ Contains(transcripts[n], Str(n))
                /\ Contains(transcripts[n], w_too_large)
        /\ \A n \in 1..Len(chunks) :
            chunks[n] = Slice((n - 1) * chunk_duration_ms, n * chunk_duration_ms, audio_len)
        /\ pc = "done" => Len(transcripts) = Len(chunks)

\* an oversize chunk was skipped and the chunk after it was dispatched
C6_Witness ==
    /\ app = "cloud" /\ pc = "done" /\ Len(chunks) >= 2
    /\ TooLarge(outcomes[1])
    /\ 1 \notin Range(calls) /\ 2 \in Range(calls)
    /\ GotText(outcomes[2]) /\ outcomes[2].text = <<"b">>

(***************************************************************************)
(* transcribe_google_stt as one call (both scripts)                        *)
(***************************************************************************)
e_no_file == <<"N","o"," ","f","i","l","e">>

RECURSIVE ChunkLoop(_, _, _)
\* the recognition loop over the outcomes os, starting at chunk number n
ChunkLoop(os, n, acc) ==
    IF os = <<>> THEN acc
    ELSE LET r == ProcessChunk(n, Head(os))
             called == Dispatch(acc.calls, n, r.called)
         IN  IF r.raised
             THEN [acc EXCEPT !.raised = TRUE, !.msg = r.msg, !.calls = called]
             ELSE ChunkLoop(Tail(os), n + 1,
                            [acc EXCEPT !.transcripts = Append(@, r.text), !.calls = called])

RECURSIVE VariantChunkLoop(_, _, _)
VariantChunkLoop(os, n, acc) ==
    IF os = <<>> THEN acc
    ELSE LET r == VariantProcessChunk(n, Head(os))
             called == IF r.called THEN Append(acc.calls, n) ELSE acc.calls
         IN  IF r.raised
             THEN [acc EXCEPT !.raised = TRUE, !.msg = r.msg, !.calls = called]
             ELSE VariantChunkLoop(Tail(os), n + 1,
                            [acc EXCEPT !.transcripts = Append(@, r.text), !.calls = called])

LoopStart == [raised |-> FALSE, msg |-> <<>>, transcripts |-> <<>>, calls |-> <<>>]

\* e: [nc, tool, load_error, file_size, outcomes]; returns the text, the
\* recognize calls made and the path that was unlinked
transcribe_google_stt(e, len, window, input) ==
    LET conv == convert_audio_to_standard_format(<<"w","a","v">>, e.tool, input)
        wp == IF e.nc = "True" /\ conv.success THEN "temp" ELSE "original"
        target == CleanupTarget(e.nc, wp)
    IN  IF wp = "original" /\ input # "exists"
        THEN [text |-> OuterHandler(e_no_file), calls |-> <<>>, unlinked |-> "nothing"]
        ELSE IF e.load_error # <<>>
        THEN [text |-> OuterHandler(e.load_error), calls |-> <<>>, unlinked |-> "nothing"]
        ELSE IF len <= window /\ e.file_size <= max_size_mb * MB
        THEN IF e.outcomes[1].resp = "text"
             THEN [text |-> ShortResult(e.outcomes[1].text), calls |-> <<0>>, unlinked |-> target]
             ELSE [text |-> OuterHandler(e.outcomes[1].msg), calls |-> <<0>>, unlinked |-> "nothing"]
        ELSE LET n == Len(SegmentAudio(len, window))
                 l == ChunkLoop(SubSeq(e.outcomes, 1, n), 1, LoopStart)
             IN  IF l.raised
                 THEN [text |-> OuterHandler(l.msg), calls |-> l.calls, unlinked |-> "nothing"]
                 ELSE [text |-> Aggregate(l.transcripts), calls |-> l.calls, unlinked |-> target]

\* e: [load_error, outcomes]
variant_transcribe_google_stt(e, len, window) ==
    IF e.load_error # <<>>
    THEN [text |-> VariantOuterHandler(e.load_error), calls |-> <<>>]
    ELSE LET n == Len(SegmentAudio(len, window))
             l == VariantChunkLoop(SubSeq(e.outcomes, 1, n), 1, LoopStart)
         IN  IF l.raised
             THEN [text |-> VariantOuterHandler(l.msg), calls |-> l.calls]
             ELSE [text |-> VariantAggregate(l.transcripts), calls |-> l.calls]

(***************************************************************************)
(* transcribe_gemini                                                       *)
(***************************************************************************)
gemini_max_mb == 15
GeminiOuterErrMax == 150
GeminiFormatErrMax == 100
GeminiGenErrMax == 120
VariantGeminiErrMax == 100

GEMINI_ERR == <<"[","G","e","m","i","n","i"," ","u932F","u8AA4",":"," ">>
GEMINI_QUOTA == GEMINI_ERR \o <<"A","P","I"," ","u914D","u984D","u4E0D","u8DB3","]">>

\* f"{x:.1f}" of bytes / MB (round half up on the first decimal)
Fmt1(bytes) ==
    LET tenths == (bytes * 10 + MB \div 2) \div MB
    IN  Str(tenths \div 10) \o <<".">> \o Str(tenths % 10)

\* outer except of transcribe_gemini
GeminiOuterHandler(msg) ==
    IF Contains(Lower(msg), <<"a","p","i"," ","k","e","y">>) \/ Contains(Lower(msg), <<"a","p","i","_","k","e","y">>)
    THEN GEMINI_ERR \o <<"A","P","I"," ","K","e","y"," ","u7121","u6548","u6216","u672A","u8A2D","u5B9A","]">>
    ELSE IF Contains(Lower(msg), s_quota) \/ Contains(msg, <<"4","2","9">>)
    THEN GEMINI_QUOTA
    ELSE IF Contains(Lower(msg), <<"p","e","r","m","i","s","s","i","o","n">>)
    THEN GEMINI_ERR \o <<"A","P","I"," ","u6B0A","u9650","u4E0D","u8DB3","]">>
    ELSE GEMINI_ERR \o Take(msg, GeminiOuterErrMax) \o <<"]">>

\* except Exception as gen_error
GeminiGenHandler(msg) ==
    IF Contains(Lower(msg), s_quota) \/ Contains(msg, <<"4","2","9">>)
    THEN GEMINI_QUOTA
    ELSE IF Contains(Lower(msg), <<"u","n","s","u","p","p","o","r","t","e","d">>) \/ Contains(Lower(msg), s_invalid)
    THEN GEMINI_ERR \o <<"u683C","u5F0F","u554F","u984C"," ","-"," ">> \o Take(msg, GeminiFormatErrMax) \o <<"]">>
    ELSE IF Contains(Lower(msg), <<"s","a","f","e","t","y">>)
    THEN GEMINI_ERR \o <<"u5167","u5BB9","u88AB","u5B89","u5168","u904E","u6FFE","u5668","u963B","u64CB","]">>
    ELSE <<"[","G","e","m","i","n","i"," ","u751F","u6210","u932F","u8AA4",":"," ">> \o Take(msg, GeminiGenErrMax) \o <<"]">>

\* e: [tool, setup_error, file_size, resp, text, msg]; returns the text, the
\* number of generate_content calls made and what has become of the
\* temporary M4A file that the call created
transcribe_gemini(e, input) ==
    LET conv == convert_audio_to_standard_format(<<"m","4","a">>, e.tool, input)
    IN  IF ~conv.success
        THEN [text |-> GEMINI_ERR \o <<"u97F3","u8A0A","u8F49","u63DB","u5931","u6557"," ","-"," ">> \o conv.message \o <<"]">>,
              calls |-> 0, temp |-> "exists"]
        ELSE IF e.setup_error # <<>>
        THEN [text |-> GeminiOuterHandler(e.setup_error), calls |-> 0, temp |-> "exists"]
        ELSE IF e.file_size > gemini_max_mb * MB
        THEN [text |-> GEMINI_ERR \o <<"u8F49","u63DB","u5F8C","u6A94","u6848","u904E","u5927"," ","(">> \o Fmt1(e.file_size)
                        \o <<"M","B","uFF0C","u9650","u5236"," ","1","5","M","B",")","]">>,
              calls |-> 0, temp |-> "deleted"]
        ELSE IF e.resp = "text"
        THEN [text |-> IF e.text = <<>> THEN SENTINEL ELSE Strip(e.text), calls |-> 1,
              temp |-> "deleted"]
        ELSE [text |-> GeminiGenHandler(e.msg), calls |-> 1, temp |-> "deleted"]

\* the variant script: e: [resp, text, msg]
variant_transcribe_gemini(e) ==
    IF e.resp = "text"
    THEN [text |-> IF e.text # <<>> THEN Strip(e.text) ELSE SENTINEL, calls |-> 1]
    ELSE [text |-> IF Contains(e.msg, <<"4","0","0">>)
                   THEN GEMINI_ERR \o <<"u683C","u5F0F","u4E0D","u652F","u63F4","u6216","u6A94","u6848","u640D","u6BC0","]">>
                   ELSE GEMINI_ERR \o Take(e.msg, VariantGeminiErrMax) \o <<"]">>,
          calls |-> 1]

(***************************************************************************)
(* The upload loop                                                         *)
(***************************************************************************)
MaxFiles == 2
BatchWindow == 2

\* lengths of the uploaded audio: empty, shorter and longer than the window
FileLens == {0, 1, BatchWindow + 1}

\* use_stt / use_gemini: "Google STT" / "Gemini" / the dual-mode word in mode
use_stt == mode \in {"stt", "dual"}
use_gemini == mode \in {"gemini", "dual"}

\* file names are numbers; the name n carries the timestamp
\* (MaxFiles + 2 - n) \div 2: the names 1 and 2 share a timestamp and a
\* higher name is earlier (uploads need not be in time order)
extract_datetime_from_filename(name) == (MaxFiles + 2 - name) \div 2

\* ffprobe duration; 0 for a missing, empty or unreadable file.  The model
\* keeps the duration in the unit of audio_len.
get_audio_info(file, probe) == IF probe # "ok" THEN 0 ELSE file.audio_len

o_text(n) == [kind |-> "exported", size |-> max_size_mb * MB, resp |-> "text",
              text |-> <<Letters[((n - 1) % 10) + 1]>>]
o_exception(msg) == [kind |-> "exported", size |-> max_size_mb * MB,
                     resp |-> "exception", msg |-> msg]

\* recognizer answers for a file of n units: all recognized, or the first fails
OutcomeLists(n) ==
    { [k \in 1..n |-> o_text(k)],
      [k \in 1..n |-> IF k = 1 THEN o_exception(e_quota) ELSE o_text(k)] }

Units(len, window) == IF len <= window THEN 1 ELSE Len(SegmentAudio(len, window))

\* environments of one transcribe_google_stt call
SttEnvs(len, window) ==
    { [nc |-> c[1], tool |-> c[2], load_error |-> <<>>,
       file_size |-> max_size_mb * MB, outcomes |-> os] :
         c \in {<<"None", "ok">>, <<"True", "ok">>, <<"True", "failed">>},
         os \in OutcomeLists(Units(len, window)) }
    \cup { [nc |-> "None", tool |-> "ok", load_error |-> e_boom,
            file_size |-> max_size_mb * MB, outcomes |-> <<>>] }

VariantSttEnvs(len, window) ==
    { [load_error |-> <<>>, outcomes |-> os] :
         os \in OutcomeLists(Len(SegmentAudio(len, window))) }
    \cup { [load_error |-> e_boom, outcomes |-> <<>>] }

\* environments of one transcribe_gemini call
GeminiEnvs ==
    { [tool |-> "failed", setup_error |-> <<>>, file_size |-> gemini_max_mb * MB,
       resp |-> "text", text |-> <<"g">>, msg |-> <<>>],
      [tool |-> "ok", setup_error |-> <<>>, file_size |-> gemini_max_mb * MB,
       resp |-> "text", text |-> <<"g", " ">>, msg |-> <<>>],
      [tool |-> "ok", setup_error |-> <<>>, file_size |-> gemini_max_mb * MB,
       resp |-> "exception", text |-> <<>>, msg |-> e_quota],
      [tool |-> "ok", setup_error |-> <<>>, file_size |-> gemini_max_mb * MB + 1,
       resp |-> "text", text |-> <<"g">>, msg |-> <<>>] }

VariantGeminiEnvs ==
    { [resp |-> "text", text |-> <<"g", " ">>, msg |-> <<>>],
      [resp |-> "exception", text |-> <<>>, msg |-> e_quota] }

Record(name, d, text) ==
    [filename |-> name, datetime |-> extract_datetime_from_filename(name),
     duration_sec |-> d, transcript |-> text]

Entry(name, backend, e, n) == [file |-> name, backend |-> backend, env |-> e, calls |-> n]

\* "continue" / end of the loop body
NextFile ==
    /\ file_i' = file_i + 1
    /\ bpc' = "load"

\* save the upload, probe it, skip it when the duration is 0
batch_load ==
    /\ app = "cloud" /\ bpc = "load" /\ file_i <= Len(uploaded_files)
    /\ input_file' = "exists"
    /\ \E probe \in {"ok", "failed"} :
        LET d == get_audio_info(uploaded_files[file_i], probe)
        IN  /\ duration_sec' = d
            /\ IF d = 0
               THEN NextFile
               ELSE /\ bpc' = IF use_stt THEN "stt" ELSE "gemini"
                    /\ UNCHANGED file_i
    /\ UNCHANGED <<app, chunk_duration_ms, sttVars, renderVars, mode, uploaded_files, stt_records,
                   gemini_records, log>>

\* res = transcribe_google_stt(...); stt_records.append(...)
batch_stt ==
    /\ app = "cloud" /\ bpc = "stt"
    /\ LET file == uploaded_files[file_i]
       IN  \E e \in SttEnvs(file.audio_len, chunk_duration_ms) :
            LET r == transcribe_google_stt(e, file.audio_len, chunk_duration_ms, input_file)
            IN  /\ stt_records' = Append(stt_records, Record(file.name, duration_sec, r.text))
                /\ log' = Append(log, Entry(file.name, "stt", e, Len(r.calls)))
                /\ input_file' = Unlink(r.unlinked, input_file, "original")
    /\ IF use_gemini
       THEN bpc' = "gemini" /\ UNCHANGED file_i
       ELSE NextFile
    /\ UNCHANGED <<app, chunk_duration_ms, sttVars, renderVars, mode, uploaded_files, duration_sec,
                   gemini_records>>

\* res = transcribe_gemini(temp_path); gemini_records.append(...)
batch_gemini ==
    /\ app = "cloud" /\ bpc = "gemini"
    /\ LET file == uploaded_files[file_i]
       IN  \E e \in GeminiEnvs :
            LET r == transcribe_gemini(e, input_file)
            IN  /\ gemini_records' = Append(gemini_records,
                                            Record(file.name, duration_sec, r.text))
                /\ log' = Append(log, Entry(file.name, "gemini", e, r.calls))
    /\ NextFile
    /\ UNCHANGED <<app, chunk_duration_ms, input_file, sttVars, renderVars, mode, uploaded_files,
                   duration_sec, stt_records>>

\* the variant script: save the upload, convert it to 16 kHz WAV, skip it
\* when ffmpeg fails, take the duration of the WAV
variant_batch_convert ==
    /\ app = "variant" /\ bpc = "load" /\ file_i <= Len(uploaded_files)
    /\ input_file' = "exists"
    /\ \E tool \in {"ok", "failed"} :
        IF tool = "failed"
        THEN /\ log' = Append(log, Entry(uploaded_files[file_i].name, "both",
                                         [tool |-> tool], 0))
             /\ NextFile
             /\ UNCHANGED duration_sec
        ELSE /\ duration_sec' = uploaded_files[file_i].audio_len
             /\ bpc' = IF use_stt THEN "stt" ELSE "gemini"
             /\ UNCHANGED <<file_i, log>>
    /\ UNCHANGED <<app, chunk_duration_ms, sttVars, renderVars, mode, uploaded_files, stt_records,
                   gemini_records>>

variant_batch_stt ==
    /\ app = "variant" /\ bpc = "stt"
    /\ LET file == uploaded_files[file_i]
       IN  \E e \in VariantSttEnvs(file.audio_len, chunk_duration_ms) :
            LET r == variant_transcribe_google_stt(e, file.audio_len, chunk_duration_ms)
            IN  /\ stt_records' = Append(stt_records, Record(file.name, duration_sec, r.text))
                /\ log' = Append(log, Entry(file.name, "stt", e, Len(r.calls)))
    /\ IF use_gemini
       THEN bpc' = "gemini" /\ UNCHANGED file_i
       ELSE NextFile
    /\ UNCHANGED <<app, chunk_duration_ms, input_file, sttVars, renderVars, mode, uploaded_files,
                   duration_sec, gemini_records>>

variant_batch_gemini ==
    /\ app = "variant" /\ bpc = "gemini"
    /\ LET file == uploaded_files[file_i]
       IN  \E e \in VariantGeminiEnvs :
            LET r == variant_transcribe_gemini(e)
            IN  /\ gemini_records' = Append(gemini_records,
                                            Record(file.name, duration_sec, r.text))
                /\ log' = Append(log, Entry(file.name, "gemini", e, r.calls))
    /\ NextFile
    /\ UNCHANGED <<app, chunk_duration_ms, input_file, sttVars, renderVars, mode, uploaded_files,
                   duration_sec, stt_records>>

\* the loop is over: the result tabs are drawn
batch_render ==
    /\ bpc = "load" /\ file_i > Len(uploaded_files)
    /\ bpc' = "render"
    /\ UNCHANGED <<app, chunk_duration_ms, input_file, sttVars, renderVars, mode, uploaded_files,
                   file_i, duration_sec, stt_records, gemini_records, log>>

InitBatch ==
    /\ app \in {"cloud", "variant"}
    /\ mode \in {"stt", "gemini", "dual"}
    /\ \E n \in 1..MaxFiles :
        uploaded_files \in { [k \in 1..n |-> [name |-> k, audio_len |-> f[k]]] :
                             f \in [1..n -> FileLens] }
    /\ chunk_duration_ms = BatchWindow
    /\ file_i = 1
    /\ bpc = "load"
    /\ duration_sec = 0
    /\ stt_records = <<>>
    /\ gemini_records = <<>>
    /\ log = <<>>
    /\ records_in = <<>>
    /\ merged_txt = <<>>
    /\ comparison_report = [kind |-> "none"]
    /\ input_file = "exists"
    /\ pc = "idle"
    /\ path = "none"
    /\ needs_conversion = "None"
    /\ working_path = "original"
    /\ temp_file = "none"
    /\ audio_len = 0
    /\ chunks = <<>>
    /\ transcripts = <<>>
    /\ outcomes = <<>>
    /\ calls = <<>>
    /\ result = <<>>

NextBatch ==
    \/ batch_load
    \/ batch_stt
    \/ batch_gemini
    \/ variant_batch_convert
    \/ variant_batch_stt
    \/ variant_batch_gemini
    \/ batch_render

SpecBatch == InitBatch /\ [][NextBatch]_vars

(***************************************************************************)
(* Properties of the upload loop                                           *)
(***************************************************************************)
\* the conversion that transcribe_google_stt / transcribe_gemini ran for
\* this call failed
ConversionFailed(en) ==
    \/ en.backend = "stt" /\ en.env.nc = "True" /\ en.env.tool # "ok"
    \/ en.backend = "gemini" /\ en.env.tool # "ok"

\* C7: after a failed conversion each backend still gets the original audio
\* and is called for the file.
C7_ConversionFallback ==
    app = "cloud" =>
        \A n \in 1..Len(log) : ConversionFailed(log[n]) => log[n].calls >= 1

\* C8: when the loop has ended, every selected backend has exactly one
\* record per uploaded file, in upload order.
C8_EveryFileHasRecord ==
    (app = "cloud" /\ bpc = "render") =>
        /\ use_stt =>
            /\ Len(stt_records) = Len(uploaded_files)
            /\ \A n \in 1..Len(stt_records) : stt_records[n].filename = uploaded_files[n].name
        /\ use_gemini =>
            /\ Len(gemini_records) = Len(uploaded_files)
            /\ \A n \in 1..Len(gemini_records) :
                    gemini_records[n].filename = uploaded_files[n].name

FileOf(name) == CHOOSE f \in Range(uploaded_files) : f.name = name

HasRecord(records, name, text) ==
    \E r \in Range(records) : r.filename = name /\ r.transcript = text

\* C9: in dual mode the record of each backend is what that backend alone
\* makes of the uploaded file, whatever the other backend did with it, and
\* a file handed to one backend is handed to the other one as well.
C9_BackendIsolation ==
    (app = "cloud" /\ mode = "dual") =>
        \A n \in 1..Len(log) :
            LET en == log[n]
                len == FileOf(en.file).audio_len
            IN  /\ en.backend = "gemini" =>
                    /\ HasRecord(gemini_records, en.file,
                                 transcribe_gemini(en.env, "exists").text)
                    /\ en.calls = transcribe_gemini(en.env, "exists").calls
                    /\ \E m \in 1..Len(log) : log[m].backend = "stt" /\ log[m].file = en.file
                /\ en.backend = "stt" =>
                    /\ HasRecord(stt_records, en.file,
                                 transcribe_google_stt(en.env, len, chunk_duration_ms,
                                                       "exists").text)
                    /\ (en.file < file_i \/ bpc = "render") =>
                         \E m \in 1..Len(log) :
                            log[m].backend = "gemini" /\ log[m].file = en.file

\* the recognizer failed on a file (after a failed conversion) and the
\* generative backend was called on the same file and returned its text
C9_Witness ==
    /\ app = "cloud" /\ mode = "dual" /\ bpc = "render"
    /\ \E m, n \in 1..Len(log) :
        /\ log[m].backend = "stt" /\ log[n].backend = "gemini"
        /\ log[m].file = log[n].file
        /\ ConversionFailed(log[m])
        /\ \E r \in Range(stt_records) :
                r.filename = log[m].file /\ StartsWith(r.transcript, STT_ERR)
        /\ log[n].calls = 1
        /\ HasRecord(gemini_records, log[n].file, <<"g">>)

(***************************************************************************)
(* generate_merged_content                                                 *)
(***************************************************************************)
\* format_duration: str(timedelta(seconds=int(seconds))) as <<h, m, s>>
format_duration(seconds) == <<seconds \div 3600, (seconds % 3600) \div 60, seconds % 60>>

RECURSIVE InsertByDatetime_by_text(_, _)
\* a sort whose key is the timestamp followed by the transcript's length
InsertByDatetime_by_text(r, sorted) ==
    IF sorted = <<>> THEN <<r>>
    ELSE IF \/ Head(sorted).datetime < r.datetime
            \/ /\ Head(sorted).datetime = r.datetime
               /\ Len(Head(sorted).transcript) <= Len(r.transcript)
         THEN <<Head(sorted)>> \o InsertByDatetime_by_text(r, Tail(sorted))
         ELSE <<r>> \o sorted

RECURSIVE InsertByDatetime(_, _)
\* r goes behind every element whose key is not greater than its own
InsertByDatetime(r, sorted) ==
    IF sorted = <<>> THEN <<r>>
    ELSE IF Head(sorted).datetime <= r.datetime
         THEN <<Head(sorted)>> \o InsertByDatetime(r, Tail(sorted))
         ELSE <<r>> \o sorted

RECURSIVE SortLoop(_, _)
SortLoop(rest, sorted) ==
    IF rest = <<>> THEN sorted
    ELSE SortLoop(Tail(rest), InsertByDatetime(Head(rest), sorted))

\* records.sort(key=lambda x: x['datetime']): ascending and stable
SortByDatetime(records) == SortLoop(records, <<>>)

\* the characters of the class [。！？\n]
Separators == {"u3002", "uFF01", "uFF1F", "\n"}

RECURSIVE SplitLoop(_, _, _)
\* re.split(r'[。！？\n]+', text); the empty pieces are dropped by the caller
SplitLoop(text, piece, acc) ==
    IF text = <<>> THEN Append(acc, piece)
    ELSE IF Head(text) \in Separators
         THEN SplitLoop(Tail(text), <<>>, Append(acc, piece))
         ELSE SplitLoop(Tail(text), Append(piece, Head(text)), acc)

RECURSIVE StripAndFilter(_)
\* [s.strip() for s in pieces if s.strip()]
StripAndFilter(pieces) ==
    IF pieces = <<>> THEN <<>>
    ELSE IF Strip(Head(pieces)) # <<>>
         THEN <<Strip(Head(pieces))>> \o StripAndFilter(Tail(pieces))
         ELSE StripAndFilter(Tail(pieces))

\* the split without the test for a leading "["
Dialogues_split_markers(text) ==
    LET dialogues == StripAndFilter(SplitLoop(text, <<>>, <<>>))
    IN  IF dialogues = <<>> THEN <<text>> ELSE dialogues

\* the utterances of one transcript
Dialogues(text) ==
    LET dialogues == IF StartsWith(text, <<"[">>) THEN <<>>
                     ELSE StripAndFilter(SplitLoop(text, <<>>, <<>>))
    IN  IF dialogues = <<>> THEN <<text>> ELSE dialogues

\* int(i * interval), interval = duration_sec / max(len(dialogues), 1)
TsOffset(i, duration, n) == (i * duration) \div (IF n >= 1 THEN n ELSE 1)

\* a toggle that never changes
ToggleSpeaker_stuck(speaker_toggle) == speaker_toggle

\* speaker_toggle = not speaker_toggle
ToggleSpeaker(speaker_toggle) == ~speaker_toggle

RECURSIVE EmitDialogues(_, _, _, _, _)
\* "for i, dialogue in enumerate(dialogues)"; acc: [lines, speaker_toggle]
EmitDialogues(record, dialogues, i, n, acc) ==
    IF dialogues = <<>> THEN acc
    ELSE EmitDialogues(record, Tail(dialogues), i + 1, n,
            [lines |-> Append(acc.lines,
                              [type |-> "utterance",
                               file |-> record.filename,
                               ts |-> record.datetime + TsOffset(i, record.duration_sec, n),
                               spk |-> IF acc.speaker_toggle THEN "A" ELSE "B",
                               text |-> Head(dialogues)]),
             speaker_toggle |-> ToggleSpeaker(acc.speaker_toggle)])

RECURSIVE EmitRecords(_, _)
\* "for record in records"
EmitRecords(records, acc) ==
    IF records = <<>> THEN acc
    ELSE LET record == Head(records)
             dialogues == Dialogues(record.transcript)
             said == EmitDialogues(record, dialogues, 0, Len(dialogues), acc)
         IN  EmitRecords(Tail(records),
                [said EXCEPT !.lines = Append(@, [type |-> "source",
                                                  file |-> record.filename,
                                                  duration |-> format_duration(record.duration_sec)])])

RECURSIVE TotalSec(_)
TotalSec(records) ==
    IF records = <<>> THEN 0 ELSE Head(records).duration_sec + TotalSec(Tail(records))

\* returns the list as left behind (sorted in place) and the lines
generate_merged_content(records) ==
    LET header == [type |-> "header", total |-> format_duration(TotalSec(records)),
                   count |-> Len(records)]
        sorted == SortByDatetime(records)
    IN  [records |-> sorted,
         lines |-> EmitRecords(sorted, [lines |-> <<header>>, speaker_toggle |-> TRUE]).lines
                   \o <<[type |-> "footer"]>>]

RECURSIVE VariantEmitRecords(_, _)
VariantEmitRecords(records, lines) ==
    IF records = <<>> THEN lines
    ELSE VariantEmitRecords(Tail(records),
            lines \o <<[type |-> "source", file |-> Head(records).filename],
                       [type |-> "text", file |-> Head(records).filename,
                        text |-> Head(records).transcript]>>)

\* the variant script: the records are written in the order of the list
variant_generate_merged_content(records) ==
    [records |-> records,
     lines |-> VariantEmitRecords(records, <<[type |-> "header"]>>)]

\* the Google STT tab: merged_txt = generate_merged_content(stt_records)
render_stt ==
    /\ bpc = "render" /\ use_stt
    /\ LET m == IF app = "cloud" THEN generate_merged_content(stt_records)
                ELSE variant_generate_merged_content(stt_records)
       IN  /\ stt_records' = m.records
           /\ merged_txt' = m.lines
    /\ records_in' = stt_records
    /\ bpc' = "stt_merged"
    /\ UNCHANGED <<app, chunk_duration_ms, input_file, sttVars, mode, uploaded_files,
                   file_i, duration_sec, gemini_records, log, comparison_report>>

(***************************************************************************)
(* generate_merged_content on an arbitrary list of records                 *)
(***************************************************************************)
MaxRecords == 2
MaxTime == 2

\* transcripts: three sentences, a sentinel, a bracketed text with a
\* sentence mark inside, blank fragments only, padded fragments
MergeTexts ==
    { <<"A", "u3002", "B", "uFF01", "C">>,
      SENTINEL,
      <<"[", "A", "u3002", "B">>,
      <<" ", "u3002", "\n">>,
      <<" ", "A", " ", "uFF1F", "uFF1F", "B", "\n">> }
\* durations in seconds: shorter than, and as long as, three utterances
MergeDurations == {1, 3}

InitMerge ==
    /\ app \in {"cloud", "variant"}
    /\ mode = "stt"
    /\ bpc = "render"
    /\ \E n \in 0..MaxRecords :
        stt_records \in
            { [k \in 1..n |-> [filename |-> k, datetime |-> f[k][1],
                               duration_sec |-> f[k][2], transcript |-> f[k][3]]] :
              f \in [1..n -> (1..MaxTime) \X MergeDurations \X MergeTexts] }
    /\ gemini_records = <<>>
    /\ records_in = <<>>
    /\ merged_txt = <<>>
    /\ comparison_report = [kind |-> "none"]
    /\ uploaded_files = <<>>
    /\ chunk_duration_ms = BatchWindow
    /\ file_i = 1
    /\ duration_sec = 0
    /\ log = <<>>
    /\ input_file = "exists"
    /\ pc = "idle"
    /\ path = "none"
    /\ needs_conversion = "None"
    /\ working_path = "original"
    /\ temp_file = "none"
    /\ audio_len = 0
    /\ chunks = <<>>
    /\ transcripts = <<>>
    /\ outcomes = <<>>
    /\ calls = <<>>
    /\ result = <<>>

NextMerge == render_stt

SpecMerge == InitMerge /\ [][NextMerge]_vars

(***************************************************************************)
(* Properties of generate_merged_content                                   *)
(***************************************************************************)
RECURSIVE EmittedFiles(_)
\* the files in the order in which their blocks appear in the document
EmittedFiles(lines) ==
    IF lines = <<>> THEN <<>>
    ELSE IF Head(lines).type = "source"
         THEN <<Head(lines).file>> \o EmittedFiles(Tail(lines))
         ELSE EmittedFiles(Tail(lines))

InputOf(name) == CHOOSE r \in Range(records_in) : r.filename = name
InputPos(name) == CHOOSE k \in 1..Len(records_in) : records_in[k].filename = name

\* C10: the merged document has one block per transcript, in ascending
\* order of origin timestamp, and transcripts with equal timestamps keep
\* the relative order they had in the input list.
C10_SortedStable ==
    bpc = "stt_merged" =>
        LET out == EmittedFiles(merged_txt)
        IN  /\ Len(out) = Len(records_in)
            /\ Range(out) = {r.filename : r \in Range(records_in)}
            /\ \A m, n \in 1..Len(out) :
                m < n =>
                    /\ InputOf(out[m]).datetime <= InputOf(out[n]).datetime
                    /\ InputOf(out[m]).datetime = InputOf(out[n]).datetime
                         => InputPos(out[m]) < InputPos(out[n])

(***************************************************************************)
(* Properties of the utterances of generate_merged_content                 *)
(***************************************************************************)
RECURSIVE UtterancesOf(_, _)
\* the utterance lines of one file, in document order
UtterancesOf(lines, name) ==
    IF lines = <<>> THEN <<>>
    ELSE IF Head(lines).type = "utterance" /\ Head(lines).file = name
         THEN <<Head(lines)>> \o UtterancesOf(Tail(lines), name)
         ELSE UtterancesOf(Tail(lines), name)

RECURSIVE AllUtterances(_)
AllUtterances(lines) ==
    IF lines = <<>> THEN <<>>
    ELSE IF Head(lines).type = "utterance"
         THEN <<Head(lines)>> \o AllUtterances(Tail(lines))
         ELSE AllUtterances(Tail(lines))

RECURSIVE Content(_)
\* a text without its sentence marks and white space
Content(text) ==
    IF text = <<>> THEN <<>>
    ELSE IF Head(text) \in Separators \/ IsSpace(Head(text))
         THEN Content(Tail(text))
         ELSE <<Head(text)>> \o Content(Tail(text))

\* number of maximal runs without a sentence mark that hold a visible character
Fragments(text) ==
    Cardinality({ k \in 1..Len(text) :
        /\ text[k] \notin Separators /\ ~IsSpace(text[k])
        /\ \A j \in 1..(k - 1) :
              (text[j] \notin Separators /\ ~IsSpace(text[j]))
                 => \E m \in (j + 1)..(k - 1) : text[m] \in Separators })

MergedCloud == app = "cloud" /\ bpc = "stt_merged"

\* C11: a transcript that starts with "[" is one utterance equal to the
\* whole text; any other transcript is cut at the sentence marks and
\* newlines into its non-blank fragments, trimmed, and is one utterance
\* equal to the whole text when no fragment is left; every transcript has
\* at least one utterance.
C11_UtteranceSplit ==
    MergedCloud =>
        \A r \in Range(records_in) :
            LET us == UtterancesOf(merged_txt, r.filename)
                text == r.transcript
            IN  /\ Len(us) >= 1
                /\ StartsWith(text, <<"[">>) => (Len(us) = 1 /\ us[1].text = text)
                /\ (~StartsWith(text, <<"[">>) /\ Fragments(text) = 0)
                      => (Len(us) = 1 /\ us[1].text = text)
                /\ (~StartsWith(text, <<"[">>) /\ Fragments(text) > 0) =>
                      /\ Len(us) = Fragments(text)
                      /\ \A k \in 1..Len(us) :
                            /\ us[k].text # <<>>
                            /\ \A j \in 1..Len(us[k].text) : us[k].text[j] \notin Separators
                            /\ ~IsSpace(us[k].text[1])
                            /\ ~IsSpace(us[k].text[Len(us[k].text)])
                      /\ Content(Join([k \in 1..Len(us) |-> us[k].text])) = Content(text)

\* a bracketed text with a sentence mark inside, a text of blank fragments
\* and a text of padded fragments have all been merged
C11_Witness ==
    /\ MergedCloud
    /\ Len(records_in) = 2
    /\ records_in[1].transcript = <<"[", "A", "u3002", "B">>
    /\ records_in[2].transcript = <<" ", "A", " ", "uFF1F", "uFF1F", "B", "\n">>
    /\ Len(UtterancesOf(merged_txt, 2)) = 2

\* C12: the stamps of the utterances of one file start at the file's origin
\* timestamp, lie within the file's duration and are strictly increasing
\* from one utterance to the next, for every duration d > 0 and every number
\* of utterances.
C12_TimestampsIncrease ==
    MergedCloud =>
        \A r \in Range(records_in) :
            LET us == UtterancesOf(merged_txt, r.filename)
            IN  /\ us[1].ts = r.datetime
                /\ \A k \in 1..Len(us) : us[k].ts < r.datetime + r.duration_sec
                /\ \A k \in 1..(Len(us) - 1) : us[k].ts < us[k + 1].ts

\* C13: numbering the utterances of the merged document 0, 1, 2, ... in
\* output order across all files, the even ones are speaker A and the odd
\* ones speaker B, so two consecutive utterances never share a label, also
\* across a file boundary.
C13_SpeakersAlternate ==
    MergedCloud =>
        LET us == AllUtterances(merged_txt)
        IN  /\ \A j \in 1..Len(us) : us[j].spk = IF (j - 1) % 2 = 0 THEN "A" ELSE "B"
            /\ \A j \in 1..(Len(us) - 1) : us[j].spk # us[j + 1].spk

\* the first file has three utterances, so the second file starts with B
C13_Witness ==
    /\ MergedCloud
    /\ Len(records_in) = 2
    /\ Len(UtterancesOf(merged_txt, stt_records[1].filename)) = 3
    /\ LET us == UtterancesOf(merged_txt, stt_records[2].filename)
       IN  Len(us) = 2 /\ us[1].spk = "B" /\ us[2].spk = "A"

(***************************************************************************)
(* generate_comparison_report                                              *)
(***************************************************************************)
Max(a, b) == IF a >= b THEN a ELSE b
Abs(a) == IF a >= 0 THEN a ELSE 0 - a

\* f"{a / b:.1f}" in tenths (no tie on the second decimal arises in the
\* checked range)
Tenths(a, b) == (20 * a + b) \div (2 * b)

RECURSIVE TotalChars(_)
\* sum(len(r['transcript']) for r in records)
TotalChars(records) ==
    IF records = <<>> THEN 0
    ELSE Len(Head(records).transcript) + TotalChars(Tail(records))

\* abs(total_stt_chars - total_gemini_chars) / len(stt_records), as a fraction
avg_diff(stt, gemini) ==
    [num |-> Abs(TotalChars(stt) - TotalChars(gemini)), den |-> Len(stt)]

\* the denominator is the first text's character set only
similarity_pct_first_only(stt_text, gemini_text) ==
    Tenths(Cardinality(Range(stt_text) \cap Range(gemini_text)) * 100,
           Max(Cardinality(Range(stt_text)), 1))

\* len(common_chars) / max(len(set(stt_text)), len(set(gemini_text)), 1) * 100,
\* in tenths of a percent as printed
similarity_pct(stt_text, gemini_text) ==
    Tenths(Cardinality(Range(stt_text) \cap Range(gemini_text)) * 100,
           Max(Max(Cardinality(Range(stt_text)), Cardinality(Range(gemini_text))), 1))

s_error == <<"u932F", "u8AA4">>

\* text.startswith('[') and '錯誤' in text
is_error(text) == StartsWith(text, <<"[">>) /\ Contains(text, s_error)

Verdict(stt_text, gemini_text) ==
    IF is_error(stt_text) /\ is_error(gemini_text) THEN "both_failed"
    ELSE IF is_error(stt_text) THEN "stt_failed"
    ELSE IF is_error(gemini_text) THEN "gemini_failed"
    ELSE "both_ok"

\* one turn of "for i, (stt_rec, gemini_rec) in enumerate(zip(...), 1)"
ComparePair(i, stt_rec, gemini_rec) ==
    [i |-> i,
     filename |-> stt_rec.filename,
     duration |-> format_duration(stt_rec.duration_sec),
     stt_text |-> stt_rec.transcript,
     stt_chars |-> Len(stt_rec.transcript),
     gemini_text |-> gemini_rec.transcript,
     gemini_chars |-> Len(gemini_rec.transcript),
     diff |-> Abs(Len(stt_rec.transcript) - Len(gemini_rec.transcript)),
     similarity |-> similarity_pct(stt_rec.transcript, gemini_rec.transcript),
     verdict |-> Verdict(stt_rec.transcript, gemini_rec.transcript)]

\* zip stops at the end of the shorter list
Zip(a, b) == [k \in 1..Min(Len(a), Len(b)) |-> <<a[k], b[k]>>]

generate_comparison_report(stt, gemini) ==
    IF stt = <<>> \/ gemini = <<>>
    THEN [kind |-> "no_records", count |-> Len(stt)]
    ELSE [kind |-> "report",
          count |-> Len(stt),
          total_stt_chars |-> TotalChars(stt),
          total_gemini_chars |-> TotalChars(gemini),
          avg_diff |-> avg_diff(stt, gemini),
          pairs |-> [k \in 1..Len(Zip(stt, gemini)) |->
                        ComparePair(k, Zip(stt, gemini)[k][1], Zip(stt, gemini)[k][2])]]

\* the variant script: one block per zipped pair, nothing else
variant_generate_comparison_report(stt, gemini) ==
    [kind |-> "report",
     pairs |-> [k \in 1..Len(Zip(stt, gemini)) |->
                    [filename |-> Zip(stt, gemini)[k][1].filename,
                     stt_text |-> Zip(stt, gemini)[k][1].transcript,
                     gemini_text |-> Zip(stt, gemini)[k][2].transcript]]]

\* comparison_report = generate_comparison_report(stt_records, gemini_records)
call_generate_comparison_report ==
    /\ bpc = "compare"
    /\ comparison_report' =
          IF app = "cloud" THEN generate_comparison_report(stt_records, gemini_records)
          ELSE variant_generate_comparison_report(stt_records, gemini_records)
    /\ bpc' = "compared"
    /\ UNCHANGED <<app, chunk_duration_ms, input_file, sttVars, mode, uploaded_files,
                   file_i, duration_sec, stt_records, gemini_records, log,
                   records_in, merged_txt>>

(***************************************************************************)
(* generate_comparison_report on two arbitrary lists of records            *)
(***************************************************************************)
MaxPairs == 2

\* what transcribe_google_stt returns: recognized text, a file-level error,
\* the text of a file whose only chunk failed, the sentinel
CompareSttTexts ==
    { <<"a">>, <<"a", "b", "c">>, OuterHandler(e_boom), Aggregate(<<FailMarker(1)>>),
      Aggregate(<<<<>>>>) }
\* what transcribe_gemini returns: recognized text, an error, the sentinel
CompareGeminiTexts ==
    { <<"a">>, <<"b", "c", "d">>, GeminiGenHandler(e_quota), SENTINEL }

RecordLists(texts) ==
    UNION { { [k \in 1..n |-> [filename |-> k, datetime |-> k, duration_sec |-> 3,
                               transcript |-> f[k]]] : f \in [1..n -> texts] } :
            n \in 0..MaxPairs }

InitCompare ==
    /\ app \in {"cloud", "variant"}
    /\ mode = "dual"
    /\ bpc = "compare"
    /\ stt_records \in RecordLists(CompareSttTexts)
    /\ gemini_records \in RecordLists(CompareGeminiTexts)
    /\ records_in = <<>>
    /\ merged_txt = <<>>
    /\ comparison_report = [kind |-> "none"]
    /\ uploaded_files = <<>>
    /\ chunk_duration_ms = BatchWindow
    /\ file_i = 1
    /\ duration_sec = 0
    /\ log = <<>>
    /\ input_file = "exists"
    /\ pc = "idle"
    /\ path = "none"
    /\ needs_conversion = "None"
    /\ working_path = "original"
    /\ temp_file = "none"
    /\ audio_len = 0
    /\ chunks = <<>>
    /\ transcripts = <<>>
    /\ outcomes = <<>>
    /\ calls = <<>>
    /\ result = <<>>

NextCompare == call_generate_comparison_report

SpecCompare == InitCompare /\ [][NextCompare]_vars

(***************************************************************************)
(* Properties of generate_comparison_report                                *)
(***************************************************************************)
Compared == bpc = "compared"

\* C14: called with two lists of different lengths, the function fails with
\* AlignmentMismatch; it returns neither a report over a prefix of the
\* longer list nor the "no comparable records" report.
C14_MismatchFails ==
    (Compared /\ Len(stt_records) # Len(gemini_records)) =>
        comparison_report.kind = "AlignmentMismatch"

DistinctChars(text) == {text[k] : k \in 1..Len(text)}

Reported == Compared /\ app = "cloud" /\ comparison_report.kind = "report"

\* C15: the similarity printed for a pair is the number of distinct
\* characters the two texts share, over the larger of the two numbers of
\* distinct characters (at least 1), in percent; passing the two lists in
\* the other order leaves every pair's similarity and character-count
\* difference as they are.
C15_SimilaritySymmetric ==
    Reported =>
        LET swapped == generate_comparison_report(gemini_records, stt_records)
        IN  \A k \in 1..Len(comparison_report.pairs) :
                LET p == comparison_report.pairs[k]
                    a == DistinctChars(p.stt_text)
                    b == DistinctChars(p.gemini_text)
                    m == Max(Max(Cardinality(a), Cardinality(b)), 1)
                IN  /\ 2 * m * p.similarity <= 2000 * Cardinality(a \cap b) + m
                    /\ 2 * m * p.similarity > 2000 * Cardinality(a \cap b) - m
                    /\ swapped.pairs[k].similarity = p.similarity
                    /\ swapped.pairs[k].diff = p.diff

\* a pair whose texts have 3 and 1 distinct characters, one of them shared
C15_Witness ==
    /\ Reported
    /\ \E k \in 1..Len(comparison_report.pairs) :
        /\ comparison_report.pairs[k].stt_text = <<"a", "b", "c">>
        /\ comparison_report.pairs[k].gemini_text = <<"a">>
        /\ comparison_report.pairs[k].similarity = 333

\* what the recognizer pipeline returns for a file it failed on as a whole:
\* a file-level error, the text of a file whose chunks all failed, the
\* sentinel
WholeFileFailures ==
    { OuterHandler(e_boom), Aggregate(<<FailMarker(1)>>), SENTINEL }

\* C16: every pair has one of the four verdicts, and a pair whose
\* recognizer transcript is a whole-file failure while the other backend's
\* transcript is recognized text has the verdict "recognizer failed only".
C16_FailureClassified ==
    Reported =>
        \A k \in 1..Len(comparison_report.pairs) :
            LET p == comparison_report.pairs[k]
            IN  /\ p.verdict \in {"both_failed", "stt_failed", "gemini_failed", "both_ok"}
                /\ (p.stt_text \in WholeFileFailures /\ ~StartsWith(p.gemini_text, <<"[">>))
                      => p.verdict = "stt_failed"

RECURSIVE SumOver(_, _)
SumOver(pairs, field) ==
    IF pairs = <<>> THEN 0 ELSE Head(pairs)[field] + SumOver(Tail(pairs), field)

\* C17: over n >= 1 aligned pairs the totals are the sums of the pairs'
\* character counts, and the mean difference is the sum of the pairs'
\* absolute character-count differences over n.
C17_Aggregates ==
    (Reported /\ Len(stt_records) = Len(gemini_records)) =>
        /\ comparison_report.total_stt_chars = SumOver(comparison_report.pairs, "stt_chars")
        /\ comparison_report.total_gemini_chars
              = SumOver(comparison_report.pairs, "gemini_chars")
        /\ comparison_report.avg_diff.den = Len(comparison_report.pairs)
        /\ comparison_report.avg_diff.num = SumOver(comparison_report.pairs, "diff")

(***************************************************************************)
(* Properties of the chunk loop and of the returned transcripts            *)
(***************************************************************************)
\* the text a marker for position n starts with
MarkerHead(n) == <<"[", "u7B2C">> \o Str(n) \o <<"u6BB5">>

\* C18: when the chunk loop has finished for a file of n chunks there are
\* exactly n outcomes, the i-th being that of chunk i (its text, the empty
\* text, or a marker naming position i) on every path through the loop
\* body, and the returned text is their concatenation in ascending order.
C18_OneOutcomePerChunk ==
    (app = "cloud" /\ path = "long") =>
        /\ Len(transcripts) <= Len(chunks)
        /\ Len(outcomes) = Len(transcripts)
        /\ \A i \in 1..Len(transcripts) :
            /\ GotText(outcomes[i]) => transcripts[i] = outcomes[i].text
            /\ Failed(outcomes[i]) =>
                  (StartsWith(transcripts[i], MarkerHead(i)) /\ IsBracketed(transcripts[i]))
        /\ pc = "done" =>
            /\ Len(transcripts) = Len(chunks)
            /\ result \in {SENTINEL, Join([i \in 1..Len(chunks) |-> transcripts[i]])}
            /\ (\E i \in 1..Len(chunks) : Strip(transcripts[i]) # <<>>)
                  => result = Join([i \in 1..Len(chunks) |-> transcripts[i]])

\* four chunks took the four paths: text, empty result, oversize, exception
C18_Witness ==
    /\ app = "cloud" /\ pc = "done" /\ Len(chunks) = 4
    /\ GotText(outcomes[1]) /\ outcomes[1].text = <<"a">>
    /\ GotText(outcomes[2]) /\ outcomes[2].text = <<>>
    /\ TooLarge(outcomes[3])
    /\ BackendFailed(outcomes[4])
    /\ result = <<"a">> \o TooLargeMarker(3) \o FailMarker(4)

\* C19: a returned transcript is never empty or blank; when the recognized
\* text is empty or blank the returned text is the sentinel.
C19_NoBlankTranscript ==
    (app = "cloud" /\ pc = "done") =>
        /\ Strip(result) # <<>>
        /\ (ShortDone /\ GotText(outcomes[1]) /\ Strip(outcomes[1].text) = <<>>)
              => result = SENTINEL
        /\ (path = "long" /\ Strip(Join(transcripts)) = <<>>) => result = SENTINEL

\* C20: the recognizer is called at most once for each chunk, in chunk
\* order, whatever the call's outcome; a quota error of a chunk leaves the
\* quota marker for that chunk alone, and the loop goes on with the chunk
\* after it; the generative backend is called at most once for a file.
C20_NoRetry ==
    /\ (app = "cloud" /\ path = "long") =>
        /\ \A j, k \in 1..Len(calls) : j < k => calls[j] < calls[k]
        /\ \A k \in 1..Len(calls) : calls[k] \in 1..Len(outcomes)
        /\ \A i \in 1..Len(transcripts) :
            (BackendFailed(outcomes[i]) /\ Contains(Lower(outcomes[i].msg), s_quota)) =>
                /\ transcripts[i] = QuotaMarker(i)
                /\ pc = "chunking" \/ (pc = "done" /\ Len(outcomes) = Len(chunks))
                /\ \A j \in 1..Len(transcripts) :
                      (j # i /\ GotText(outcomes[j])) => transcripts[j] = outcomes[j].text
    /\ ShortDone => calls = <<0>>
    /\ \A e \in GeminiEnvs : transcribe_gemini(e, "exists").calls <= 1

\* the second of three chunks hit the quota and the third was dispatched
C20_Witness ==
    /\ app = "cloud" /\ pc = "done" /\ Len(chunks) = 3
    /\ GotText(outcomes[1])
    /\ BackendFailed(outcomes[2]) /\ outcomes[2].msg = e_quota
    /\ GotText(outcomes[3]) /\ outcomes[3].text = <<"c">>
    /\ calls = <<1, 2, 3>>
    /\ result = outcomes[1].text \o QuotaMarker(2) \o <<"c">>

(***************************************************************************)
(* The result tabs after the upload loop (dual mode)                       *)
(***************************************************************************)
\* the Gemini tab: merged_txt = generate_merged_content(gemini_records)
render_gemini ==
    /\ use_gemini
    /\ \/ bpc = "stt_merged"
       \/ bpc = "render" /\ ~use_stt
    /\ LET m == IF app = "cloud" THEN generate_merged_content(gemini_records)
                ELSE variant_generate_merged_content(gemini_records)
       IN  /\ gemini_records' = m.records
           /\ merged_txt' = m.lines
    /\ records_in' = gemini_records
    /\ bpc' = "gemini_merged"
    /\ UNCHANGED <<app, chunk_duration_ms, input_file, sttVars, mode, uploaded_files,
                   file_i, duration_sec, stt_records, log, comparison_report>>

\* comparison_data: "for i in range(len(stt_records))" reads stt_records[i]
\* and gemini_records[i]
comparison_data(stt, gemini) ==
    IF Len(gemini) < Len(stt) THEN [kind |-> "IndexError"]
    ELSE [kind |-> "table",
          rows |-> [i \in 1..Len(stt) |->
                       [filename |-> stt[i].filename,
                        duration |-> format_duration(stt[i].duration_sec),
                        stt_text |-> stt[i].transcript,
                        gemini_text |-> gemini[i].transcript]]]

\* the comparison tab: a warning when a list is empty, else the table and
\* the report
render_compare ==
    /\ bpc = "gemini_merged" /\ use_stt /\ use_gemini
    /\ comparison_report' =
          IF stt_records = <<>> \/ gemini_records = <<>>
          THEN [kind |-> "warning"]
          ELSE IF comparison_data(stt_records, gemini_records).kind = "IndexError"
          THEN [kind |-> "IndexError"]
          ELSE [generate_comparison_report(stt_records, gemini_records)
                    EXCEPT !.kind = "table_and_report"]
    /\ bpc' = "tabs_done"
    /\ UNCHANGED <<app, chunk_duration_ms, input_file, sttVars, mode, uploaded_files,
                   file_i, duration_sec, stt_records, gemini_records, log,
                   records_in, merged_txt>>

MaxDualFiles == 2

\* the k-th upload is empty or k units long, and is named k or k + 1: the
\* names 1 and 2 share a timestamp and the name 3 is earlier than both
DualUploads ==
    UNION { { [k \in 1..n |-> [name |-> k + shift, audio_len |-> IF k \in empty THEN 0 ELSE k]] :
              shift \in {0, 1}, empty \in SUBSET (1..n) } :
            n \in 1..MaxDualFiles }

InitDual ==
    /\ app = "cloud"
    /\ mode = "dual"
    /\ uploaded_files \in DualUploads
    /\ chunk_duration_ms = BatchWindow
    /\ file_i = 1
    /\ bpc = "load"
    /\ duration_sec = 0
    /\ stt_records = <<>>
    /\ gemini_records = <<>>
    /\ log = <<>>
    /\ records_in = <<>>
    /\ merged_txt = <<>>
    /\ comparison_report = [kind |-> "none"]
    /\ input_file = "exists"
    /\ pc = "idle"
    /\ path = "none"
    /\ needs_conversion = "None"
    /\ working_path = "original"
    /\ temp_file = "none"
    /\ audio_len = 0
    /\ chunks = <<>>
    /\ transcripts = <<>>
    /\ outcomes = <<>>
    /\ calls = <<>>
    /\ result = <<>>

NextDual ==
    \/ batch_load
    \/ batch_stt
    \/ batch_gemini
    \/ batch_render
    \/ render_stt
    \/ render_gemini
    \/ render_compare

SpecDual == InitDual /\ [][NextDual]_vars

(***************************************************************************)
(* Properties of the two record lists in dual mode                         *)
(***************************************************************************)
\* the two lists pair the same files
Aligned ==
    /\ Len(stt_records) = Len(gemini_records)
    /\ \A i \in 1..Len(stt_records) :
        /\ stt_records[i].filename = gemini_records[i].filename
        /\ stt_records[i].datetime = gemini_records[i].datetime
        /\ stt_records[i].duration_sec = gemini_records[i].duration_sec

\* C21: between two files of the upload loop, at its end, and when the
\* comparison tab reads the two lists after both have been sorted in place,
\* the lists have the same length and pair, index by index, the same file
\* with the same timestamp and duration; the table and the report then read
\* every pair.
C21_IndexAligned ==
    /\ bpc \in {"load", "render", "gemini_merged", "tabs_done"} => Aligned
    /\ bpc = "tabs_done" =>
        /\ comparison_report.kind \in {"warning", "table_and_report"}
        /\ comparison_report.kind = "warning" => stt_records = <<>>
        /\ comparison_report.kind = "table_and_report" =>
            /\ Len(comparison_report.pairs) = Len(stt_records)
            /\ \A i \in 1..Len(stt_records) :
                /\ comparison_report.pairs[i].stt_text = stt_records[i].transcript
                /\ comparison_report.pairs[i].gemini_text = gemini_records[i].transcript
                /\ \E n \in 1..Len(log) :
                    /\ log[n].backend = "gemini"
                    /\ log[n].file = stt_records[i].filename
                    /\ transcribe_gemini(log[n].env, "exists").text
                          = gemini_records[i].transcript

\* two files with one timestamp, and the sort moved a third, earlier file
\* ahead of a later one
C21_Witness ==
    /\ bpc = "tabs_done"
    /\ Len(stt_records) = 2
    /\ records_in # gemini_records
    /\ comparison_report.kind = "table_and_report"
    /\ Len(stt_records[1].transcript) > Len(stt_records[2].transcript)
    /\ Len(gemini_records[1].transcript) < Len(gemini_records[2].transcript)


(***************************************************************************)
(* Properties of the temporary files                                       *)
(***************************************************************************)
\* C22: when transcribe_google_stt has returned, by whatever path, the
\* temporary converted file it created is gone and the input file is still
\* there.
C22_NoTempLeft ==
    (app = "cloud" /\ pc = "done") =>
        /\ temp_file # "exists"
        /\ input_file = "exists"

====
